---- MODULE Spec2Model ----
(***************************************************************************)
(* A model of main.py: translate_excel duplicates a workbook, then for     *)
(* every sheet snapshots the layout, unmerges the duplicate, translates    *)
(* the distinct strings through safe_translate (bounded retry), writes the *)
(* values into the duplicate, re-merges, restores the layout and saves.    *)
(*                                                                         *)
(* A sheet is a row-major enumeration of its cells (NumCells of them, or    *)
(* WideCells in the workbooks of SpecWide); a merged range is an interval  *)
(* lo..hi of that enumeration whose anchor (top-left cell) is lo.  The     *)
(* file system maps the two paths of a run to their content.               *)
(***************************************************************************)
EXTENDS Integers, Sequences, FiniteSets, TLC

\* ------------------------------------------------------------------ bounds
NumSheets == 2
NumCells == 2

\* safe_translate(translator, text, max_retries=3, delay=1)
max_retries == 3
delay == 1

\* ------------------------------------------------------------- cell values
None == [t |-> "none", s |-> <<>>, n |-> 0]
Num(k) == [t |-> "num", s |-> <<>>, n |-> k]
Str(q) == [t |-> "str", s |-> q, n |-> 0]
\* a formula cell of the file: its text and the value Excel cached for it
Formula(k) == [t |-> "formula", s |-> <<"=">>, n |-> k]

\* the strings of the model: a whitespace-only one and two texts
Blank == <<" ">>
Ola == <<"o">>
Erro == <<"e">>
\* what the remote translator answers when it answers: a string that is no
\* text of the workbook, so that a translated cell differs from a passed
\* through one; each call either answers or raises
Hello == <<"h">>
RemoteResults == {Hello}

\* str.strip(): leading and trailing whitespace removed
RECURSIVE lstrip(_)
lstrip(q) == IF q # <<>> /\ Head(q) = " " THEN lstrip(Tail(q)) ELSE q

RECURSIVE rstrip(_)
rstrip(q) ==
    IF q # <<>> /\ q[Len(q)] = " " THEN rstrip(SubSeq(q, 1, Len(q) - 1)) ELSE q

strip(q) == rstrip(lstrip(q))

\* the test without strip(): every string counts as text
NeedsTranslation_NoStrip(v) == v.t = "str"

\* isinstance(value, str) and value.strip()
NeedsTranslation(v) == v.t = "str" /\ strip(v.s) # <<>>

\* ------------------------------------------------------------------ sheets
Positions == 1..NumCells
Ranges == {[lo |-> a, hi |-> b] : a \in Positions, b \in Positions}
RangeCells(r) == r.lo..r.hi
\* str(merge_range) and the parse merge_cells / unmerge_cells make of it
RangeStr(r) == <<r.lo, r.hi>>
ParseRange(q) == [lo |-> q[1], hi |-> q[2]]

\* the MergedCell test left out
IsMergedCell_Never(sheet, p) == FALSE

\* isinstance(cell, MergedCell): a non-anchor member of a merged range
IsMergedCell(sheet, p) ==
    \E r \in sheet.merges : p \in RangeCells(r) /\ p # r.lo

ColKeys == {"A", "B"}
RowKeys == {"1", "2"}
Unset == "None"
Width == "10"
Height == "15"

Plain == "plain"
Styled == "styled"
Cell(v, st) == [value |-> v, style |-> st]
EmptyCell == Cell(None, Plain)

\* ---------------------------------------------------------- input workbooks
CellValues == {Num(42), Formula(7), Str(Blank), Str(Ola), Str(Erro)}
StyleOf(v) == IF v.t = "str" THEN Styled ELSE Plain

ProperRanges == {r \in Ranges : r.lo < r.hi}
Disjoint(M) ==
    \A r1 \in M, r2 \in M : r1 # r2 => RangeCells(r1) \cap RangeCells(r2) = {}
MergeChoices == {M \in SUBSET ProperRanges : Disjoint(M)}

\* the dimensions of every sheet: one column and one row with an explicit
\* size, one column and one row whose dimension entry holds None
Widths == [c \in ColKeys |-> IF c = "A" THEN Width ELSE Unset]
Heights == [r \in RowKeys |-> IF r = "1" THEN Height ELSE Unset]

\* a sheet as stored in a workbook file: the members of a merged range hold
\* nothing of their own
MkSheet(f, M, w, h) ==
    [cells |-> [p \in DOMAIN f |->
                  IF \E r \in M : p \in RangeCells(r) /\ p # r.lo
                  THEN EmptyCell ELSE Cell(f[p], StyleOf(f[p]))],
     merges |-> M, widths |-> w, heights |-> h]

\* the values of sheet k: those of the first sheet shifted by k - 1 cells
Rotate(f, k) == [p \in DOMAIN f |-> f[((p - 1 + k) % Len(f)) + 1]]

\* the input workbooks: every cell content and merge layout for the first
\* sheet; the other sheets hold the same values, shifted by one cell per
\* sheet, under the same merges
Workbooks ==
    {[k \in 1..NumSheets |-> MkSheet(Rotate(f, k - 1), M, Widths, Heights)] :
        f \in [Positions -> CellValues], M \in MergeChoices}

\* workbooks with room for two merged ranges in one sheet: an empty string
\* or a number in the first cell, a blank string or a text in the second, a
\* text or a number in the third, numbers in the others, under every layout
\* of disjoint merged ranges
WideCells == 4
WidePositions == 1..WideCells
Empty == <<>>
WideValues == {Str(Empty), Str(Blank), Num(42), Str(Ola)}
WideRanges == {r \in [lo : WidePositions, hi : WidePositions] : r.lo < r.hi}
WideMerges == {M \in SUBSET WideRanges : Disjoint(M)}
WideContents ==
    {f \in [WidePositions -> WideValues] :
        /\ f[1] \in {Str(Empty), Num(42)}
        /\ f[2] \in {Str(Blank), Str(Ola)}
        /\ f[3] \in {Str(Ola), Num(42)}
        /\ \A p \in WidePositions : p > 3 => f[p] = Num(42)}
WideWorkbooks ==
    {[k \in 1..NumSheets |-> MkSheet(Rotate(f, k - 1), M, Widths, Heights)] :
        f \in WideContents, M \in WideMerges}

\* ------------------------------------------------------------- file system
Paths == {"in", "out"}
input_file == "in"
NoFile == [kind |-> "none", wb |-> <<>>]
\* a file left at the output path by an earlier run or another program
StaleFile == [kind |-> "stale", wb |-> <<>>]
\* what an interrupted copy or save leaves behind
PartialFile == [kind |-> "partial", wb |-> <<>>]
WbFile(wb) == [kind |-> "wb", wb |-> wb]
\* os.path.exists
exists(f) == f.kind # "none"

\* load_workbook(path, keep_vba=True, data_only=...): with data_only a
\* formula cell reads as its cached value
load_sheet(sheet, data_only) ==
    [sheet EXCEPT !.cells =
        [p \in DOMAIN @ |->
            IF data_only /\ @[p].value.t = "formula"
            THEN Cell(Num(@[p].value.n), @[p].style) ELSE @[p]]]

load_workbook(file, data_only) ==
    [k \in DOMAIN file.wb |-> load_sheet(file.wb[k], data_only)]

VARIABLES
    fs,             \* path -> file content
    output_file,    \* the resolved output path
    pc,             \* position in translate_excel
    outcome,        \* how the run ended
    wb_source, wb_target,
    current_sheet,
    column_widths, row_heights, merged_ranges,
    translations,   \* the sheet's cache
    idx,            \* position of the running for loop
    call,           \* the frame of the running (or last) safe_translate
    calls,          \* sheet -> texts safe_translate was invoked with
    written,        \* <<sheet, position>> of the target cells assigned
    saves,          \* number of completed wb_target.save
    merge_failed,   \* <<sheet, range>> whose merge_cells raised
    raised          \* where an exception left its statement: "remove", "copy",
                    \* a step of the try block, "cleanup"

vars == <<fs, output_file, pc, outcome, wb_source, wb_target, current_sheet,
          column_widths, row_heights, merged_ranges, translations, idx, call,
          calls, written, saves, merge_failed, raised>>

files == <<fs, output_file>>
books == <<wb_source, wb_target>>
snapshot == <<column_widths, row_heights, merged_ranges>>
logs == <<calls, written, saves, merge_failed, raised>>

NoCall == [text |-> <<>>, attempt |-> 0, tries |-> 0, sleeps |-> <<>>,
           status |-> "idle", result |-> <<>>]

InitWith(books_on_disk) ==
    /\ \E wb \in books_on_disk, present \in BOOLEAN,
          old \in {NoFile, StaleFile} :
          fs = [p \in Paths |->
                  IF p = input_file
                  THEN (IF present THEN WbFile(wb) ELSE NoFile)
                  ELSE old]
    /\ output_file \in Paths
    /\ pc = "kill"
    /\ outcome = "running"
    /\ wb_source = <<>> /\ wb_target = <<>>
    /\ current_sheet = 0
    /\ column_widths = <<>> /\ row_heights = <<>> /\ merged_ranges = <<>>
    /\ translations = <<>>
    /\ idx = 0
    /\ call = NoCall
    /\ calls = [k \in 1..NumSheets |-> <<>>]
    /\ written = {}
    /\ saves = 0
    /\ merge_failed = {}
    /\ raised = {}

Init == InitWith(Workbooks)
InitWide == InitWith(WideWorkbooks)

\* ------------------------------------------------------------------ helpers
\* the orders in which a set can be iterated
Orderings(S) ==
    {q \in [1..Cardinality(S) -> S] : \A i, j \in DOMAIN q : q[i] = q[j] => i = j}

\* ws.unmerge_cells(range_string): the range is dropped and its member cells
\* are deleted, so they read as empty cells from then on
unmerge_cells(sheet, q) ==
    LET r == ParseRange(q) IN
    [sheet EXCEPT
        !.merges = @ \ {r},
        !.cells = [p \in DOMAIN @ |->
                     IF p \in RangeCells(r) /\ p # r.lo THEN EmptyCell ELSE @[p]]]

\* for merge_range in list(ws_target.merged_cells.ranges): unmerge_cells(...)
RECURSIVE UnmergeAll(_)
UnmergeAll(sheet) ==
    IF sheet.merges = {} THEN sheet
    ELSE LET r == CHOOSE x \in sheet.merges : TRUE
         IN UnmergeAll(unmerge_cells(sheet, RangeStr(r)))

\* a merge that declares nothing
merge_cells_Nothing(sheet, q) == sheet

\* ws.merge_cells(range_string): the range is declared and its member cells
\* become MergedCell placeholders without a value
merge_cells(sheet, q) ==
    LET r == ParseRange(q) IN
    [sheet EXCEPT
        !.merges = @ \cup {r},
        !.cells = [p \in DOMAIN @ |->
                     IF p \in RangeCells(r) /\ p # r.lo THEN EmptyCell ELSE @[p]]]

\* the cache never consulted
Cached_Never(cache, text) == FALSE

\* value not in translations (line 123), negated
Cached(cache, text) == text \in DOMAIN cache

\* giving up one attempt early
LastAttempt_OneEarly(attempt) == attempt = max_retries - 2

\* attempt == max_retries - 1 (line 33)
LastAttempt(attempt) == attempt = max_retries - 1

\* a removal that deletes nothing
os_remove_Nothing(fsys, path) == fsys

\* os.remove(path)
os_remove(fsys, path) == [fsys EXCEPT ![path] = NoFile]

\* shutil.copy2(src, dst)
copy2(fsys, src, dst) == [fsys EXCEPT ![dst] = fsys[src]]

\* translations.get(value, value)
Get(d, k, default) == IF k \in DOMAIN d THEN d[k] ELSE default

\* copy_cell_format(source_cell, target_cell)
copy_cell_format(source_cell, target_cell) ==
    IF source_cell.style # Plain
    THEN [target_cell EXCEPT !.style = source_cell.style]
    ELSE target_cell

\* lines 140-147: the value and the format a target cell receives
ApplyValue(source_cell, target_cell, cache) ==
    LET value == source_cell.value
        assigned == IF NeedsTranslation(value)
                    THEN [target_cell EXCEPT !.value = Str(Get(cache, value.s, value.s))]
                    ELSE [target_cell EXCEPT !.value = value]
    IN copy_cell_format(source_cell, assigned)

\* lines 159-164: only the captured dimensions that are set are written
RestoreDims(captured, current) ==
    [k \in DOMAIN current |->
        IF k \in DOMAIN captured /\ captured[k] # Unset THEN captured[k] ELSE current[k]]

\* the backoff without its + 1
Backoff_FromZero(attempt) == delay * attempt

\* time.sleep(delay * (attempt + 1))
Backoff(attempt) == delay * (attempt + 1)

ws_source == wb_source[current_sheet]
ws_target == wb_target[current_sheet]
total_sheets == Len(wb_source)
\* the number of cells ws_source.rows goes over (lines 116, 131)
max_cell == Len(ws_source.cells)

\* the locals of the try block are dead once control leaves it: neither the
\* handler of line 173 nor the caller reads them
DropLocals ==
    /\ wb_source' = <<>> /\ wb_target' = <<>>
    /\ current_sheet' = 0
    /\ column_widths' = <<>> /\ row_heights' = <<>> /\ merged_ranges' = <<>>
    /\ translations' = <<>>
    /\ idx' = 0
    /\ call' = NoCall

\* ------------------------------------------------------------------ actions
\* lines 14-15: subprocess.run returns, whatever taskkill's exit code is, or
\* raises (no such executable, permission denied)
RunTaskkill ==
    /\ pc = "kill"
    /\ pc' \in {"kill_sleep", "kill_except"}
    /\ UNCHANGED <<files, outcome, books, current_sheet, snapshot, translations,
                   idx, call, logs>>

\* line 16, then the return to line 53
KillSleep ==
    /\ pc = "kill_sleep"
    /\ pc' = "remove"
    /\ UNCHANGED <<files, outcome, books, current_sheet, snapshot, translations,
                   idx, call, logs>>

\* a handler that lets the exception through: the run ends with it
KillExcept_Reraise ==
    /\ pc = "kill_except"
    /\ raised' = raised \cup {"kill"}
    /\ outcome' = "crashed"
    /\ pc' = "done"
    /\ UNCHANGED <<files, books, current_sheet, snapshot, translations, idx,
                   call, calls, written, saves, merge_failed>>

\* lines 17-18: except: pass, then the return to line 53
KillExcept ==
    /\ pc = "kill_except"
    /\ pc' = "remove"
    /\ UNCHANGED <<files, outcome, books, current_sheet, snapshot, translations,
                   idx, call, logs>>

kill_excel_processes ==
    \/ RunTaskkill
    \/ KillSleep
    \/ KillExcept

\* lines 58-60: no file at the output path, or os.remove deletes it
RemoveExisting ==
    /\ pc = "remove"
    /\ fs' = IF exists(fs[output_file]) THEN os_remove(fs, output_file) ELSE fs
    /\ pc' = "copy"
    /\ UNCHANGED <<output_file, outcome, books, current_sheet, snapshot,
                   translations, idx, call, logs>>

\* lines 59, 65-67: os.remove raises (file locked, permission denied)
RemoveFails ==
    /\ pc = "remove"
    /\ exists(fs[output_file])
    /\ raised' = raised \cup {"remove"}
    /\ outcome' = "copy_failure"
    /\ pc' = "done"
    /\ UNCHANGED <<files, books, current_sheet, snapshot, translations, idx,
                   call, calls, written, saves, merge_failed>>

\* lines 61-64: shutil.copy2 finds no input file
CopyNotFound ==
    /\ pc = "copy"
    /\ ~exists(fs[input_file])
    /\ outcome' = "not_found"
    /\ pc' = "done"
    /\ UNCHANGED <<files, books, current_sheet, snapshot, translations, idx,
                   call, logs>>

\* line 61: the output path holds a copy of the input
CopyOk ==
    /\ pc = "copy"
    /\ exists(fs[input_file])
    /\ fs' = copy2(fs, input_file, output_file)
    /\ pc' = "load_source"
    /\ UNCHANGED <<output_file, outcome, books, current_sheet, snapshot,
                   translations, idx, call, logs>>

\* lines 61, 65-67: shutil.copy2 raises before or while writing the copy
CopyFails ==
    /\ pc = "copy"
    /\ exists(fs[input_file])
    /\ fs' \in {fs, [fs EXCEPT ![output_file] = PartialFile]}
    /\ raised' = raised \cup {"copy"}
    /\ outcome' = "copy_failure"
    /\ pc' = "done"
    /\ UNCHANGED <<output_file, books, current_sheet, snapshot, translations, idx,
                   call, calls, written, saves, merge_failed>>

\* line 76
LoadSource ==
    /\ pc = "load_source"
    /\ wb_source' = load_workbook(fs[input_file], TRUE)
    /\ pc' = "load_target"
    /\ UNCHANGED <<files, outcome, wb_target, current_sheet, snapshot,
                   translations, idx, call, logs>>

\* lines 77-80
LoadTarget ==
    /\ pc = "load_target"
    /\ wb_target' = load_workbook(fs[output_file], FALSE)
    /\ current_sheet' = 0
    /\ pc' = "sheet"
    /\ UNCHANGED <<files, outcome, wb_source, snapshot, translations, idx, call,
                   logs>>

\* lines 83-98: the next sheet; widths, heights and merges of the source
NextSheet ==
    /\ pc = "sheet"
    /\ current_sheet < total_sheets
    /\ current_sheet' = current_sheet + 1
    /\ column_widths' = wb_source[current_sheet + 1].widths
    /\ row_heights' = wb_source[current_sheet + 1].heights
    /\ merged_ranges' \in
          Orderings({RangeStr(r) : r \in wb_source[current_sheet + 1].merges})
    /\ pc' = "unmerge"
    /\ UNCHANGED <<files, outcome, books, translations, idx, call, logs>>

\* the cache of the sheet before carried over
Unmerge_KeepCache ==
    /\ pc = "unmerge"
    /\ wb_target' = [wb_target EXCEPT ![current_sheet] = UnmergeAll(@)]
    /\ call' = NoCall
    /\ idx' = 1
    /\ pc' = "collect"
    /\ UNCHANGED <<files, outcome, wb_source, current_sheet, snapshot,
                   translations, logs>>

\* lines 100-111: the target sheet loses its merges; an empty cache
Unmerge ==
    /\ pc = "unmerge"
    /\ wb_target' = [wb_target EXCEPT ![current_sheet] = UnmergeAll(@)]
    /\ translations' = <<>>
    /\ call' = NoCall
    /\ idx' = 1
    /\ pc' = "collect"
    /\ UNCHANGED <<files, outcome, wb_source, current_sheet, snapshot, logs>>

\* lines 116-127: a cell that needs no call
CollectSkip ==
    /\ pc = "collect"
    /\ idx <= max_cell
    /\ LET value == ws_source.cells[idx].value IN
          \/ IsMergedCell(ws_source, idx)
          \/ ~NeedsTranslation(value)
          \/ Cached(translations, value.s)
    /\ idx' = idx + 1
    /\ UNCHANGED <<files, pc, outcome, books, current_sheet, snapshot,
                   translations, call, logs>>

\* the call made for every string, blank or not
CollectCall_AnyString ==
    /\ pc = "collect"
    /\ idx <= max_cell
    /\ ~IsMergedCell(ws_source, idx)
    /\ LET value == ws_source.cells[idx].value IN
          /\ value.t = "str"
          /\ ~Cached(translations, value.s)
          /\ call' = [NoCall EXCEPT !.text = value.s, !.status = "running"]
          /\ calls' = [calls EXCEPT ![current_sheet] = Append(@, value.s)]
    /\ pc' = "safe_translate"
    /\ UNCHANGED <<files, outcome, books, current_sheet, snapshot, translations,
                   idx, written, saves, merge_failed, raised>>

\* lines 122-124: a text the cache does not hold: safe_translate is entered
CollectCall ==
    /\ pc = "collect"
    /\ idx <= max_cell
    /\ ~IsMergedCell(ws_source, idx)
    /\ LET value == ws_source.cells[idx].value IN
          /\ NeedsTranslation(value)
          /\ ~Cached(translations, value.s)
          /\ call' = [NoCall EXCEPT !.text = value.s, !.status = "running"]
          /\ calls' = [calls EXCEPT ![current_sheet] = Append(@, value.s)]
    /\ pc' = "safe_translate"
    /\ UNCHANGED <<files, outcome, books, current_sheet, snapshot, translations,
                   idx, written, saves, merge_failed, raised>>

\* an answer that does not reach the cache
TranslateReturns_NoStore ==
    /\ pc = "safe_translate"
    /\ \E translated \in RemoteResults :
          call' = [call EXCEPT !.tries = @ + 1,
                               !.sleeps = Append(@, delay),
                               !.status = "returned",
                               !.result = translated]
    /\ idx' = idx + 1
    /\ pc' = "collect"
    /\ UNCHANGED <<files, outcome, books, current_sheet, snapshot, translations,
                   logs>>

\* lines 29-31, 125: the remote call answers
TranslateReturns ==
    /\ pc = "safe_translate"
    /\ \E translated \in RemoteResults :
          /\ call' = [call EXCEPT !.tries = @ + 1,
                                  !.sleeps = Append(@, delay),
                                  !.status = "returned",
                                  !.result = translated]
          /\ translations' = translations @@ (call.text :> translated)
    /\ idx' = idx + 1
    /\ pc' = "collect"
    /\ UNCHANGED <<files, outcome, books, current_sheet, snapshot, logs>>

\* a retry loop that starts over instead of giving up
TranslateRaises_Forever ==
    /\ pc = "safe_translate"
    /\ IF LastAttempt(call.attempt)
       THEN call' = [call EXCEPT !.tries = 0, !.attempt = 0, !.sleeps = <<>>]
       ELSE call' = [call EXCEPT !.tries = @ + 1,
                                 !.sleeps = Append(@, Backoff(call.attempt)),
                                 !.attempt = @ + 1]
    /\ UNCHANGED <<translations, idx, pc>>
    /\ UNCHANGED <<files, outcome, books, current_sheet, snapshot, logs>>

\* lines 32-36: the remote call raises
TranslateRaises ==
    /\ pc = "safe_translate"
    /\ IF LastAttempt(call.attempt)
       THEN /\ call' = [call EXCEPT !.tries = @ + 1,
                                    !.status = "exhausted",
                                    !.result = call.text]
            /\ translations' = translations @@ (call.text :> call.text)
            /\ idx' = idx + 1
            /\ pc' = "collect"
       ELSE /\ call' = [call EXCEPT !.tries = @ + 1,
                                    !.sleeps = Append(@, Backoff(call.attempt)),
                                    !.attempt = @ + 1]
            /\ UNCHANGED <<translations, idx, pc>>
    /\ UNCHANGED <<files, outcome, books, current_sheet, snapshot, logs>>

\* a collect pass left before its rows are exhausted
CollectDone_Early ==
    /\ pc = "collect"
    /\ idx <= max_cell
    /\ call' = NoCall
    /\ idx' = 1
    /\ pc' = "apply"
    /\ UNCHANGED <<files, outcome, books, current_sheet, snapshot, translations,
                   logs>>

\* line 116: the rows are exhausted
CollectDone ==
    /\ pc = "collect"
    /\ idx = max_cell + 1
    /\ call' = NoCall
    /\ idx' = 1
    /\ pc' = "apply"
    /\ UNCHANGED <<files, outcome, books, current_sheet, snapshot, translations,
                   logs>>

\* lines 131-147
ApplyCell ==
    /\ pc = "apply"
    /\ idx <= max_cell
    /\ IF IsMergedCell(ws_source, idx)
       THEN UNCHANGED <<wb_target, written>>
       ELSE /\ wb_target' = [wb_target EXCEPT ![current_sheet].cells[idx] =
                                ApplyValue(ws_source.cells[idx], @, translations)]
            /\ written' = written \cup {<<current_sheet, idx>>}
    /\ idx' = idx + 1
    /\ UNCHANGED <<files, pc, outcome, wb_source, current_sheet, snapshot,
                   translations, call, calls, saves, merge_failed, raised>>

\* line 131: the rows are exhausted
ApplyDone ==
    /\ pc = "apply"
    /\ idx = max_cell + 1
    /\ idx' = 1
    /\ pc' = "remerge"
    /\ UNCHANGED <<files, outcome, books, current_sheet, snapshot, translations,
                   call, logs>>

\* lines 151-153
RemergeOk ==
    /\ pc = "remerge"
    /\ idx <= Len(merged_ranges)
    /\ wb_target' = [wb_target EXCEPT ![current_sheet] =
                        merge_cells(@, merged_ranges[idx])]
    /\ idx' = idx + 1
    /\ UNCHANGED <<files, pc, outcome, wb_source, current_sheet, snapshot,
                   translations, call, logs>>

\* a failed merge taken for a failure of the job
RemergeRaises_Aborts ==
    /\ pc = "remerge"
    /\ idx <= Len(merged_ranges)
    /\ merge_failed' = merge_failed \cup {<<current_sheet, merged_ranges[idx]>>}
    /\ pc' = "except"
    /\ DropLocals
    /\ UNCHANGED <<files, outcome, calls, written, saves, raised>>

\* lines 153-155: merge_cells raises, a warning is printed
RemergeRaises ==
    /\ pc = "remerge"
    /\ idx <= Len(merged_ranges)
    /\ merge_failed' = merge_failed \cup {<<current_sheet, merged_ranges[idx]>>}
    /\ idx' = idx + 1
    /\ UNCHANGED <<files, pc, outcome, books, current_sheet, snapshot,
                   translations, call, calls, written, saves, raised>>

\* line 151: the captured ranges are exhausted
RemergeDone ==
    /\ pc = "remerge"
    /\ idx = Len(merged_ranges) + 1
    /\ pc' = "layout"
    /\ UNCHANGED <<files, outcome, books, current_sheet, snapshot, translations,
                   idx, call, logs>>

\* lines 159-164
RestoreLayout ==
    /\ pc = "layout"
    /\ wb_target' = [wb_target EXCEPT
                        ![current_sheet].widths = RestoreDims(column_widths, @),
                        ![current_sheet].heights = RestoreDims(row_heights, @)]
    /\ pc' = "save"
    /\ UNCHANGED <<files, outcome, wb_source, current_sheet, snapshot,
                   translations, idx, call, logs>>

\* a save that writes nothing
Save_Nothing ==
    /\ pc = "save"
    /\ saves' = saves + 1
    /\ pc' = "sheet"
    /\ UNCHANGED <<files, outcome, books, current_sheet, snapshot,
                   translations, idx, call, calls, written, merge_failed, raised>>

\* line 168
Save ==
    /\ pc = "save"
    /\ fs' = [fs EXCEPT ![output_file] = WbFile(wb_target)]
    /\ saves' = saves + 1
    /\ pc' = "sheet"
    /\ UNCHANGED <<output_file, outcome, books, current_sheet, snapshot,
                   translations, idx, call, calls, written, merge_failed, raised>>

\* lines 170-171: the loop over the sheets is exhausted
Finish ==
    /\ pc = "sheet"
    /\ current_sheet = total_sheets
    /\ outcome' = "success"
    /\ pc' = "done"
    /\ DropLocals
    /\ UNCHANGED <<files, logs>>

\* the steps of the try block (lines 74-168) that can raise into line 173
TrySteps == {"load_source", "load_target", "unmerge", "collect", "apply",
             "remerge", "layout", "save"}

\* lines 173-176: a step of the try block raises; a save that raises may
\* have begun to overwrite the output file
Raise ==
    /\ \/ pc \in TrySteps
       \/ pc = "sheet" /\ current_sheet < total_sheets
    /\ fs' \in IF pc = "save"
               THEN {fs, [fs EXCEPT ![output_file] = PartialFile]}
               ELSE {fs}
    /\ raised' = raised \cup {pc}
    /\ pc' = "except"
    /\ DropLocals
    /\ UNCHANGED <<output_file, outcome, calls, written, saves, merge_failed>>

\* lines 177-183: the output file is removed; a failing os.remove is ignored
Cleanup ==
    /\ pc = "except"
    /\ IF exists(fs[output_file])
       THEN \/ fs' = os_remove(fs, output_file) /\ UNCHANGED raised
            \/ fs' = fs /\ raised' = raised \cup {"cleanup"}
       ELSE UNCHANGED <<fs, raised>>
    /\ outcome' = "aborted"
    /\ pc' = "done"
    /\ UNCHANGED <<output_file, books, current_sheet, snapshot, translations, idx,
                   call, calls, written, saves, merge_failed>>

translate_excel ==
    \/ RemoveExisting
    \/ RemoveFails
    \/ CopyNotFound
    \/ CopyOk
    \/ CopyFails
    \/ LoadSource
    \/ LoadTarget
    \/ NextSheet
    \/ Unmerge
    \/ CollectSkip
    \/ CollectCall
    \/ CollectDone
    \/ ApplyCell
    \/ ApplyDone
    \/ RemergeOk
    \/ RemergeRaises
    \/ RemergeDone
    \/ RestoreLayout
    \/ Save
    \/ Finish
    \/ Raise
    \/ Cleanup

safe_translate ==
    \/ TranslateReturns
    \/ TranslateRaises

Next == kill_excel_processes \/ translate_excel \/ safe_translate

Spec == Init /\ [][Next]_vars

\* the same program run on the workbooks with two merged ranges per sheet
SpecWide == InitWide /\ [][Next]_vars

\* the program is sequential: whenever it has a next statement it executes
\* it; a remote call returns or raises, a sleep ends
FairSpec == Spec /\ WF_vars(Next)

\* =================================================================== claims
\* what the claims read, stated without the operators of the model
SourceSheet(k) == load_sheet(fs[input_file].wb[k], TRUE)
\* a string with at least one character that is not whitespace
IsText(v) == v.t = "str" /\ \E i \in DOMAIN v.s : v.s[i] # " "
\* a non-anchor member of a merged range
IsMember(sheet, p) == \E r \in sheet.merges : r.lo < p /\ p <= r.hi
Count(q, v) == Cardinality({i \in DOMAIN q : q[i] = v})
AllStrings == {v.s : v \in {x \in CellValues : x.t = "str"}}
SheetNumbers == 1..NumSheets
\* the texts of the non-merged cells of source sheet k
SheetTexts(k) ==
    LET src == SourceSheet(k) IN
    {src.cells[p].value.s :
        p \in {x \in Positions : ~IsMember(src, x) /\ IsText(src.cells[x].value)}}
AfterCollect == {"apply", "remerge", "layout", "save"}
AfterApply == {"remerge", "layout", "save"}
CollectFinished(k) == k <= saves \/ (current_sheet = k /\ pc \in AfterCollect)
ApplyFinished(k) ==
    /\ wb_target # <<>>
    /\ \/ k < current_sheet
       \/ k = current_sheet /\ pc \in AfterApply \cup {"sheet"}
TryLabels == TrySteps \cup {"sheet"}

\* C1: within one sheet safe_translate is invoked exactly once for every
\* distinct text of a non-merged source cell and never for anything else,
\* whatever the invocation returned; after the collect pass the cache holds
\* exactly those texts, so every other occurrence is served from it.
C1_OncePerText ==
    \A k \in SheetNumbers :
        /\ \A v \in AllStrings : Count(calls[k], v) <= 1
        /\ \A i \in DOMAIN calls[k] : calls[k][i] \in AllStrings
        /\ CollectFinished(k) =>
              {calls[k][i] : i \in DOMAIN calls[k]} = SheetTexts(k)
        /\ (current_sheet = k /\ pc \in AfterCollect) =>
              DOMAIN translations = SheetTexts(k)

\* two cells of the sheet hold the same text, the one call for it degraded
\* to passthrough, and the collect pass is over
C1_Witness ==
    /\ pc = "apply"
    /\ \E p1, p2 \in Positions :
          /\ p1 # p2
          /\ ws_source.cells[p1].value = Str(Ola)
          /\ ws_source.cells[p2].value = Str(Ola)
    /\ calls[current_sheet] = <<Ola>>
    /\ translations[Ola] = Ola

\* C2: a non-merged source cell whose value is not text (not a string, or a
\* blank string) has its value in the target cell of the same position once
\* the sheet is applied, in memory and in every later save, and no call of
\* safe_translate is made with a value that is not text.
C2_NonTextCopied ==
    \A k \in SheetNumbers :
        /\ \A i \in DOMAIN calls[k] : IsText(Str(calls[k][i]))
        /\ ApplyFinished(k) =>
              LET src == SourceSheet(k) IN
              \A p \in Positions :
                 (~IsMember(src, p) /\ ~IsText(src.cells[p].value))
                    => wb_target[k].cells[p].value = src.cells[p].value
        /\ (k <= saves /\ fs[output_file].kind = "wb") =>
              LET src == SourceSheet(k) IN
              \A p \in Positions :
                 (~IsMember(src, p) /\ ~IsText(src.cells[p].value))
                    => fs[output_file].wb[k].cells[p].value = src.cells[p].value

\* a sheet with a blank string and a number has been applied
C2_Witness ==
    /\ pc = "save"
    /\ \E p1, p2 \in Positions :
          /\ ws_source.cells[p1].value = Str(Blank)
          /\ ws_target.cells[p1].value = Str(Blank)
          /\ ws_source.cells[p2].value = Num(42)
          /\ ws_target.cells[p2].value = Num(42)
    /\ calls[current_sheet] = <<>>

\* C3: no target cell at the position of a non-anchor member of a merged
\* range of the source sheet is ever assigned.
C3_MembersNeverWritten ==
    \A w \in written : ~IsMember(SourceSheet(w[1]), w[2])

\* the apply pass went over a merged range: its anchor was assigned
C3_Witness ==
    /\ pc = "remerge"
    /\ \E r \in ws_source.merges :
          /\ <<current_sheet, r.lo>> \in written
          /\ <<current_sheet, r.hi>> \notin written

\* C4: a safe_translate whose remote call raised on every attempt made
\* exactly max_retries attempts and returned its text, which the cache then
\* holds; the collect pass goes on; after the apply pass the target cells of
\* that text hold it unchanged.
C4_Exhausted ==
    /\ call.tries <= max_retries
    /\ call.status = "exhausted" =>
          /\ call.tries = max_retries
          /\ call.result = call.text
          /\ pc = "collect"
          /\ call.text \in DOMAIN translations
          /\ translations[call.text] = call.text
    /\ pc \in AfterApply =>
          \A p \in Positions :
             LET v == ws_source.cells[p].value IN
             (/\ ~IsMember(ws_source, p)
              /\ IsText(v)
              /\ translations[v.s] = v.s)
                => wb_target[current_sheet].cells[p].value = v

\* the first sheet was saved with a text that was passed through, and in the
\* second sheet a call has just run out of attempts
C4_Witness ==
    /\ call.status = "exhausted"
    /\ call.text = Erro
    /\ current_sheet = 2
    /\ \E p \in Positions :
          /\ SourceSheet(1).cells[p].value = Str(Erro)
          /\ fs[output_file].wb[1].cells[p].value = Str(Erro)

\* C5 as stated: once a step of the try block has raised, no sheet is
\* processed any more and no file is at the output path on return.
C5_Original ==
    (raised \cap TryLabels # {}) =>
        /\ pc \in {"except", "done"}
        /\ pc = "done" => ~exists(fs[output_file])

\* C5 amended: once a step of the try block has raised, no sheet is
\* processed any more, the run ends aborted, and no file is at the output
\* path on return unless the removal of the output file itself failed.
C5_AbortRemovesOutput ==
    (raised \cap TryLabels # {}) =>
        /\ pc \in {"except", "done"}
        /\ pc = "done" =>
              /\ outcome = "aborted"
              /\ "cleanup" \in raised \/ ~exists(fs[output_file])

\* a run aborted after a sheet had been saved, and the file is gone
C5_Witness ==
    /\ pc = "done"
    /\ outcome = "aborted"
    /\ saves >= 1
    /\ ~exists(fs[output_file])

\* the steps of one sheet, lines 100-168
SheetSteps == {"unmerge", "collect", "safe_translate", "apply", "remerge",
               "layout", "save"}
\* sheet out holds source sheet src as processed: the value of every
\* non-merged cell that is not text, an answer of the remote translator or
\* the text itself where the source holds text, the same one for equal texts
TranslatedSheet(src, out) ==
    /\ \A p \in Positions :
          ~IsMember(src, p) =>
             IF IsText(src.cells[p].value)
             THEN /\ out.cells[p].value.t = "str"
                  /\ out.cells[p].value.s \in RemoteResults \cup {src.cells[p].value.s}
             ELSE out.cells[p].value = src.cells[p].value
    /\ \A p, q \in Positions :
          (/\ ~IsMember(src, p) /\ ~IsMember(src, q)
           /\ IsText(src.cells[p].value)
           /\ src.cells[p].value = src.cells[q].value)
             => out.cells[p].value = out.cells[q].value
\* the file at the output path holds sheets 1..k as processed
DiskHolds(k) ==
    /\ fs[output_file].kind = "wb"
    /\ \A j \in 1..k : TranslatedSheet(SourceSheet(j), fs[output_file].wb[j])

\* C6 amended: the workbook is saved once per sheet, after the sheet's
\* layout restoration and before the next sheet starts; at every point of
\* the processing of sheet k+1 up to its own save the file at the output
\* path holds sheets 1..k as processed (and as they are in memory).
C6_Checkpoints ==
    /\ pc \in SheetSteps =>
          /\ saves = current_sheet - 1
          /\ DiskHolds(saves)
          /\ \A j \in 1..saves : fs[output_file].wb[j] = wb_target[j]
    /\ pc = "sheet" =>
          /\ saves = current_sheet
          /\ DiskHolds(saves)
          /\ fs[output_file].wb = wb_target

\* C6 as stated: the same, and also at the point where a step of sheet k+1
\* has raised and no handler has run yet.
C6_Original ==
    /\ C6_Checkpoints
    /\ (pc = "except" /\ saves >= 1) => DiskHolds(saves)

\* the second sheet is being collected and the file holds the first sheet
\* with a translated text
C6_Witness ==
    /\ pc = "collect"
    /\ current_sheet = 2
    /\ saves = 1
    /\ \E p \in Positions :
          /\ SourceSheet(1).cells[p].value = Str(Ola)
          /\ fs[output_file].wb[1].cells[p].value = Str(Hello)

LayoutFinished(k) ==
    /\ wb_target # <<>>
    /\ \/ k < current_sheet
       \/ k = current_sheet /\ pc \in {"save", "sheet"}
FailedRanges(k) ==
    {[lo |-> f[2][1], hi |-> f[2][2]] : f \in {x \in merge_failed : x[1] = k}}

\* C7: the snapshot of a sheet is that of the source sheet; once the sheet
\* is fully processed the target's merged ranges are the captured ones
\* minus those whose re-merge raised, every captured width and height that
\* is set is on the target, and where None was captured the target keeps
\* the dimension it had in the duplicate.
C7_StructureRestored ==
    /\ pc \in SheetSteps =>
          /\ column_widths = ws_source.widths
          /\ row_heights = ws_source.heights
          /\ {[lo |-> merged_ranges[i][1], hi |-> merged_ranges[i][2]] :
                 i \in DOMAIN merged_ranges} = ws_source.merges
          /\ Len(merged_ranges) = Cardinality(ws_source.merges)
    /\ \A k \in SheetNumbers :
          LayoutFinished(k) =>
             LET captured == SourceSheet(k)
                 had == fs[input_file].wb[k]
             IN
             /\ wb_target[k].merges = captured.merges \ FailedRanges(k)
             /\ \A c \in ColKeys :
                   wb_target[k].widths[c] =
                      IF captured.widths[c] # Unset
                      THEN captured.widths[c] ELSE had.widths[c]
             /\ \A r \in RowKeys :
                   wb_target[k].heights[r] =
                      IF captured.heights[r] # Unset
                      THEN captured.heights[r] ELSE had.heights[r]

\* the first sheet lost its range to a failed re-merge, the second sheet
\* has its range back and its layout restored
C7_Witness ==
    /\ pc = "save"
    /\ current_sheet = 2
    /\ FailedRanges(1) # {}
    /\ wb_target[1].merges = {}
    /\ wb_target[2].merges = SourceSheet(2).merges
    /\ wb_target[2].merges # {}
    /\ wb_target[2].widths["A"] = Width
    /\ wb_target[2].widths["B"] = Unset

NoProcessing ==
    /\ saves = 0
    /\ written = {}
    /\ \A k \in SheetNumbers : calls[k] = <<>>

\* C8: a run whose input path holds no file ends reporting not-found,
\* without loading a workbook or calling the translator, and with no file
\* at the output path.
C8_Original ==
    (pc = "done" /\ ~exists(fs[input_file])) =>
        /\ outcome = "not_found"
        /\ NoProcessing
        /\ ~exists(fs[output_file])

\* C9: a run that ends because the duplicate could not be created has
\* processed nothing and leaves no file at the output path.
C9_Original ==
    (pc = "done" /\ outcome = "copy_failure") =>
        /\ NoProcessing
        /\ ~exists(fs[output_file])

\* the sleeps of a call that succeeded after k failures
SleepsAfter(k) == [i \in 1..(k + 1) |-> IF i <= k THEN delay * i ELSE delay]

\* C10: a safe_translate that returns after k failed attempts made k + 1
\* remote calls, returns the answer of the last one, which the cache then
\* holds, and slept delay * (i + 1) after the failure of attempt i and one
\* delay after the success.
C10_RetryThenSuccess ==
    /\ call.status = "running" =>
          /\ call.tries = call.attempt
          /\ call.sleeps = [i \in 1..call.attempt |-> delay * i]
    /\ call.status = "returned" =>
          /\ call.attempt < max_retries
          /\ call.tries = call.attempt + 1
          /\ call.sleeps = SleepsAfter(call.attempt)
          /\ call.result \in RemoteResults
          /\ translations[call.text] = call.result
          /\ pc = "collect"

\* a call that succeeded on its second attempt after one backoff sleep
C10_Witness ==
    /\ call.status = "returned"
    /\ call.attempt = 1
    /\ call.tries = 2
    /\ call.sleeps = <<delay, delay>>
    /\ translations[call.text] = Hello


\* the texts safe_translate was called with in sheet k
Called(k) == {calls[k][i] : i \in DOMAIN calls[k]}
\* the texts of the non-merged cells of a loaded sheet
TextsOf(sheet) ==
    {sheet.cells[p].value.s :
        p \in {x \in DOMAIN sheet.cells :
                 ~IsMember(sheet, x) /\ IsText(sheet.cells[x].value)}}

\* C11: the cache of a sheet holds nothing but the results of the calls
\* made in that sheet: it is empty when the collect pass starts and its keys
\* are the texts called in the sheet (the call in flight excepted); what the
\* apply pass writes for a text is the entry of that cache; a text of a
\* non-merged cell of two sheets is called exactly once in each.
C11_CachePerSheet ==
    /\ pc \in SheetSteps \ {"unmerge"} =>
          /\ DOMAIN translations \cup
                (IF pc = "safe_translate" THEN {call.text} ELSE {})
                   = Called(current_sheet)
          /\ (pc = "collect" /\ idx = 1) => translations = <<>>
    /\ pc \in AfterApply =>
          \A p \in Positions :
             LET v == ws_source.cells[p].value IN
             (~IsMember(ws_source, p) /\ IsText(v))
                => ws_target.cells[p].value = Str(translations[v.s])
    /\ wb_source # <<>> =>
          \A j, k \in SheetNumbers :
             (j < k /\ CollectFinished(k)) =>
                \A v \in TextsOf(wb_source[j]) \cap TextsOf(wb_source[k]) :
                   Count(calls[j], v) = 1 /\ Count(calls[k], v) = 1

\* a text of both sheets was translated in the first sheet and passed
\* through in the second: each sheet holds the result of its own call
C11_Witness ==
    /\ pc = "save"
    /\ current_sheet = 2
    /\ calls[1] = <<Ola>>
    /\ calls[2] = <<Ola>>
    /\ translations[Ola] = Ola
    /\ \E p, q \in Positions :
          /\ wb_target[1].cells[p].value = Str(Hello)
          /\ wb_target[2].cells[q].value = Str(Ola)
          /\ wb_source[1].cells[p].value = Str(Ola)
          /\ wb_source[2].cells[q].value = Str(Ola)


\* C12: after a successful run the output file differs from the input file
\* only in the values of the non-merged cells that hold text in the input
\* file: every other cell, and the merged ranges, column widths and row
\* heights of every sheet, are those of the input file.
C12_Original ==
    (pc = "done" /\ outcome = "success") =>
        \A k \in SheetNumbers :
           LET inp == fs[input_file].wb[k]
               out == fs[output_file].wb[k]
           IN
           /\ \A p \in Positions :
                 (IsMember(inp, p) \/ ~IsText(inp.cells[p].value))
                    => out.cells[p] = inp.cells[p]
           /\ out.merges = inp.merges
           /\ out.widths = inp.widths
           /\ out.heights = inp.heights


\* the range a captured string names
RangeOf(q) == [lo |-> q[1], hi |-> q[2]]
Failed(k, q) == <<k, q>> \in merge_failed

\* C13: a captured range whose re-merge raised is left out and nothing else
\* changes: during the re-merge the ranges before the loop position have
\* each been merged or have failed, in captured order, and those after it
\* are untouched; in the layout and save steps every captured range has
\* been attempted; the run is only in its handler or aborted when a step
\* of the try block raised; and while none did, a sheet with a failed range
\* is still being finished or has been saved, and the run ends in success
\* with every sheet saved.
C13_RemergeSkipped ==
    /\ pc = "remerge" =>
          /\ idx \in 1..(Len(merged_ranges) + 1)
          /\ \A i \in DOMAIN merged_ranges :
                LET q == merged_ranges[i] IN
                IF i < idx
                THEN (RangeOf(q) \in ws_target.merges) # Failed(current_sheet, q)
                ELSE RangeOf(q) \notin ws_target.merges /\ ~Failed(current_sheet, q)
    /\ pc \in {"layout", "save"} =>
          \A i \in DOMAIN merged_ranges :
             LET q == merged_ranges[i] IN
             (RangeOf(q) \in ws_target.merges) # Failed(current_sheet, q)
    /\ (pc = "except" \/ outcome = "aborted") => raised \cap TryLabels # {}
    /\ raised \cap TryLabels = {} =>
          /\ \A f \in merge_failed :
                \/ f[1] = current_sheet /\ pc \in {"remerge", "layout", "save"}
                \/ /\ f[1] <= saves
                   /\ RangeOf(f[2]) \notin fs[output_file].wb[f[1]].merges
          /\ (pc = "done" /\ merge_failed # {}) =>
                outcome = "success" /\ saves = NumSheets

\* the first sheet was saved without its range that failed; in the second
\* sheet the first captured range failed and the one after it is merged
C13_Witness ==
    /\ pc = "remerge"
    /\ current_sheet = 2
    /\ saves = 1
    /\ Len(merged_ranges) = 2
    /\ idx = 3
    /\ Failed(2, merged_ranges[1])
    /\ RangeOf(merged_ranges[2]) \in ws_target.merges
    /\ \E q \in {merged_ranges[1], merged_ranges[2]} :
          /\ Failed(1, q)
          /\ RangeOf(q) \notin fs[output_file].wb[1].merges


KillSteps == {"kill", "kill_sleep", "kill_except"}
OnlyPositionMoves ==
    /\ pc' \in {"kill_sleep", "kill_except", "remove"}
    /\ UNCHANGED <<files, outcome, books, current_sheet, snapshot,
                   translations, idx, call, logs>>

\* C14: kill_excel_processes never raises: while control is in it nothing
\* has been raised into the job and nothing but the position changes, and
\* from the handler of a failed taskkill the job goes on to the duplication
\* step in the very state a successful taskkill leaves.
C14_KillNeverRaises ==
    /\ [](pc \in KillSteps => (raised = {} /\ outcome = "running"))
    /\ [][(pc \in KillSteps) => OnlyPositionMoves]_vars
    /\ [][(pc \in {"kill_sleep", "kill_except"}) => pc' = "remove"]_vars

\* taskkill could not be run and the exception is in the handler
C14_Witness ==
    /\ pc = "kill_except"
    /\ exists(fs[input_file])
    /\ raised = {}


\* the positions of sheet k whose target cell has been assigned
WrittenIn(k) == {w[2] : w \in {x \in written : x[1] = k}}
BeforeSheets == KillSteps \cup {"remove", "copy", "load_source", "load_target"}
\* the positions of a sheet that are no merged-range member
Free(sheet) == {p \in DOMAIN sheet.cells : ~IsMember(sheet, p)}

\* C15: nothing is processed before the duplicate exists and both workbooks
\* are loaded; sheets are processed one at a time in workbook order, sheet
\* k + 1 not being touched before sheet k is saved; within a sheet the
\* snapshot is complete before the unmerge, the unmerge before the first
\* call, every call before the first write, every write before the
\* re-merge, every re-merge before the layout and save steps.
C15_StepOrder ==
    /\ pc \in BeforeSheets =>
          NoProcessing /\ merge_failed = {} /\ current_sheet = 0
    /\ pc \in {"load_source", "load_target"} =>
          fs[output_file] = fs[input_file]
    /\ pc \in SheetSteps \cup {"sheet"} =>
          /\ saves = IF pc = "sheet" THEN current_sheet ELSE current_sheet - 1
          /\ \A k \in SheetNumbers :
                /\ k > current_sheet =>
                      /\ calls[k] = <<>>
                      /\ WrittenIn(k) = {}
                      /\ wb_target[k] = fs[input_file].wb[k]
                /\ k <= saves =>
                      /\ WrittenIn(k) = Free(wb_source[k])
                      /\ Called(k) = TextsOf(wb_source[k])
    /\ pc = "unmerge" =>
          /\ column_widths = ws_source.widths
          /\ row_heights = ws_source.heights
          /\ {RangeOf(merged_ranges[i]) : i \in DOMAIN merged_ranges}
                = ws_source.merges
          /\ ws_target.merges = fs[input_file].wb[current_sheet].merges
          /\ calls[current_sheet] = <<>>
          /\ WrittenIn(current_sheet) = {}
    /\ pc \in {"collect", "safe_translate"} =>
          /\ ws_target.merges = {}
          /\ WrittenIn(current_sheet) = {}
    /\ pc = "apply" =>
          /\ ws_target.merges = {}
          /\ Called(current_sheet) = TextsOf(ws_source)
          /\ WrittenIn(current_sheet) = {p \in Free(ws_source) : p < idx}
    /\ pc \in AfterApply =>
          /\ Called(current_sheet) = TextsOf(ws_source)
          /\ WrittenIn(current_sheet) = Free(ws_source)
    /\ pc = "remerge" =>
          ws_target.merges \subseteq
             {RangeOf(merged_ranges[i]) : i \in 1..(idx - 1)}
    /\ pc \in {"layout", "save"} =>
          ws_target.merges \cup FailedRanges(current_sheet) = ws_source.merges

\* the second sheet is in its apply pass after its one call, its first cell
\* written and its second not yet; the first sheet is saved
C15_Witness ==
    /\ pc = "apply"
    /\ current_sheet = 2
    /\ idx = 2
    /\ saves = 1
    /\ calls[2] # <<>>
    /\ WrittenIn(2) = {1}
    /\ WrittenIn(1) = Positions
    /\ fs[output_file].wb[1] = wb_target[1]


\* C16: throughout the apply pass every text of a non-merged source cell is
\* a key of the sheet's cache, and the target cell of every such cell
\* already written holds the entry of that key.
C16_NoFallback ==
    pc = "apply" =>
        \A p \in Positions :
           LET v == ws_source.cells[p].value IN
           (~IsMember(ws_source, p) /\ IsText(v)) =>
              /\ v.s \in DOMAIN translations
              /\ p < idx => ws_target.cells[p].value = Str(translations[v.s])

\* the apply pass wrote a translated and a passed-through text from the
\* cache
C16_Witness ==
    /\ pc = "apply"
    /\ idx = NumCells + 1
    /\ DOMAIN translations = {Ola, Erro}
    /\ translations[Ola] = Hello
    /\ translations[Erro] = Erro
    /\ \E p, q \in Positions :
          /\ ws_source.cells[p].value = Str(Ola)
          /\ ws_target.cells[p].value = Str(Hello)
          /\ ws_source.cells[q].value = Str(Erro)
          /\ ws_target.cells[q].value = Str(Erro)


\* the values of the non-merged cells of a sheet
FreeValues(sheet) == {sheet.cells[p].value : p \in Free(sheet)}

\* C17: every argument of safe_translate, the one of the call in flight
\* included, is a string that is not empty, holds a character that is no
\* whitespace, and is the value of a non-merged cell of the source sheet
\* being collected.
C17_OnlyText ==
    /\ \A k \in SheetNumbers :
          \A i \in DOMAIN calls[k] :
             LET t == calls[k][i] IN
             /\ t # <<>>
             /\ \E j \in DOMAIN t : t[j] # " "
             /\ Str(t) \in FreeValues(SourceSheet(k))
    /\ pc = "safe_translate" =>
          /\ calls[current_sheet] # <<>>
          /\ call.text = calls[current_sheet][Len(calls[current_sheet])]

\* the first sheet, with an empty string, a merged member, a text and a
\* number, caused one call; the second, with a blank and an empty string,
\* none
C17_Witness ==
    /\ pc = "apply"
    /\ current_sheet = 2
    /\ calls[1] = <<Ola>>
    /\ calls[2] = <<>>
    /\ {Str(Empty), Str(Ola), Num(42)} \subseteq FreeValues(wb_source[1])
    /\ Free(wb_source[1]) # DOMAIN wb_source[1].cells
    /\ {Str(Empty), Str(Blank)} \subseteq FreeValues(wb_source[2])


\* C18: no step of a run deletes or changes the file at the input path,
\* whichever output path was given.
C18_Original == [][fs'[input_file] = fs[input_file]]_vars


Outcomes == {"success", "not_found", "copy_failure", "aborted"}
\* the distinct non-blank strings of the cells of sheet k of the input file
DistinctTexts(k) ==
    LET src == SourceSheet(k) IN
    {src.cells[p].value.s :
        p \in {x \in DOMAIN src.cells : IsText(src.cells[x].value)}}
Bounded ==
    /\ call.tries <= max_retries
    /\ call.attempt < max_retries
    /\ \A k \in SheetNumbers :
          calls[k] # <<>> => Len(calls[k]) <= Cardinality(DistinctTexts(k))
    /\ pc = "done" <=> outcome \in Outcomes
    /\ outcome = "success" => saves = NumSheets /\ raised = {}
    /\ outcome = "not_found" => ~exists(fs[input_file]) /\ raised = {}
    /\ outcome = "copy_failure" => raised \in {{"remove"}, {"copy"}}
    /\ outcome = "aborted" =>
          /\ Cardinality(raised \cap TryLabels) = 1
          /\ raised \subseteq TryLabels \cup {"cleanup"}

====
